---- MODULE Spec2Model ----
(***************************************************************************)
(* Model of project.py: the S&P 500 / VIX signal-and-backtest script.      *)
(*                                                                         *)
(* Numbers.  A float is an exact rational <<n, d>> in lowest terms with    *)
(* d > 0; <<0, 0>> is NaN and <<1, 0>>, <<-1, 0>> are +inf, -inf (what     *)
(* IEEE division by zero gives).  A value that involves a square root      *)
(* (a standard deviation, the z-score, the annualised volatility) is a     *)
(* signed root <<s, n, d>> = s * sqrt(n / d), s \in {-1, 0, 1};            *)
(* <<0, 0, 0>> is its NaN.  annualized_return = base ^ (p / q) - 1 is the  *)
(* tuple <<bn, bd, p, q>>; <<0, 0, 0, 0>> is its NaN.  Rounding error of   *)
(* binary floating point is not modelled.                                  *)
(*                                                                         *)
(* Sequences are 1-based: position i of a column is pandas row i - 1.      *)
(***************************************************************************)
EXTENDS Integers, Sequences, FiniteSets, TLC

VARIABLES
    pc,         \* the statement of the script that runs next
    sp,         \* sp.csv as read: sequence of <<Date, Close>>
    vix,        \* vix.csv as read: sequence of <<Date, Close>>
    df,         \* the DataFrame: column name -> sequence of values
    dfIndex,    \* the DataFrame's row labels
    metrics,    \* <<price_metrics, vix_metrics, bh_metrics>> once computed
    results,    \* the results table once built
    printed,    \* what print(results) wrote
    saved,      \* what results.to_excel wrote
    exc,        \* the uncaught exception, "" when none
    call,       \* a direct call of one function: <<name, argument>>
    ret         \* what that call returned

vars == <<pc, sp, vix, df, dfIndex, metrics, results, printed, saved, exc, call, ret>>

---------------------------------------------------------------------------
(* Program constants                                                       *)

MAShort == 10
MALong == 30
RSIPeriod == 14
RSILow == 30
RSIHigh == 70
ZWindow == 60
PeriodsPerYear == 252
RoundDigits == 4

---------------------------------------------------------------------------
(* Bounds of the model                                                     *)

\* the longest source series (number of dates) the script is run on
MaxRows == 61
\* the longest return series performance_metrics is called on directly
MaxLen == 3
\* the z-scores Vol_Regime is applied to directly are +-sqrt(n / d), n, d <= ZMax
ZMax == 6

---------------------------------------------------------------------------
(* Exact arithmetic standing for float64                                   *)

NaN == <<0, 0>>
RootNaN == <<0, 0, 0>>
PowNaN == <<0, 0, 0, 0>>

Abs(a) == IF a < 0 THEN -a ELSE a
Sign(a) == IF a < 0 THEN -1 ELSE IF a = 0 THEN 0 ELSE 1

RECURSIVE GCD(_, _)
GCD(a, b) == IF b = 0 THEN a ELSE GCD(b, a % b)

\* n / d as a float: lowest terms; x / 0 is NaN, +inf or -inf
Rat(n, d) ==
    IF d = 0 THEN <<Sign(n), 0>>
    ELSE LET g == GCD(Abs(n), Abs(d))
         IN  <<(Sign(d) * n) \div g, Abs(d) \div g>>

I(k) == <<k, 1>>

IsNaN(x) == x[Len(x)] = 0 /\ x[1] = 0
IsNum(x) == x[2] # 0

Add(x, y) == IF IsNum(x) /\ IsNum(y) THEN Rat(x[1] * y[2] + y[1] * x[2], x[2] * y[2]) ELSE NaN
Sub(x, y) == IF IsNum(x) /\ IsNum(y) THEN Rat(x[1] * y[2] - y[1] * x[2], x[2] * y[2]) ELSE NaN
Mul(x, y) == IF IsNum(x) /\ IsNum(y) THEN Rat(x[1] * y[1], x[2] * y[2]) ELSE NaN
Div(x, y) == IF IsNum(x) /\ IsNum(y) THEN Rat(x[1] * y[2], x[2] * y[1]) ELSE NaN

\* float comparisons: every comparison with NaN is False
Lt(x, y) == IsNum(x) /\ IsNum(y) /\ x[1] * y[2] < y[1] * x[2]
Gt(x, y) == Lt(y, x)
Le(x, y) == IsNum(x) /\ IsNum(y) /\ x[1] * y[2] <= y[1] * x[2]
Ge(x, y) == Le(y, x)
Ne(x, y) == ~(IsNum(x) /\ IsNum(y) /\ x = y)

\* sqrt of a float >= 0, as a signed root
Sqrt(x) ==
    IF ~IsNum(x) \/ x[1] < 0 THEN RootNaN
    ELSE IF x[1] = 0 THEN <<0, 0, 1>>
    ELSE <<1, x[1], x[2]>>

\* a signed root times sqrt(k), k a float > 0
RootTimesSqrt(r, k) ==
    IF IsNaN(r) \/ ~IsNum(k) THEN RootNaN
    ELSE IF r[1] = 0 THEN <<0, 0, 1>>
    ELSE LET q == Mul(<<r[2], r[3]>>, k) IN <<r[1], q[1], q[2]>>

\* a float divided by a signed root: x / (s * sqrt(n / d))
DivByRoot(x, r) ==
    IF ~IsNum(x) \/ IsNaN(r) THEN RootNaN
    ELSE IF r[1] = 0 THEN <<Sign(x[1]), 0, 0>>
    ELSE IF x[1] = 0 THEN <<0, 0, 1>>
    ELSE LET q == Div(Mul(x, x), <<r[2], r[3]>>)
         IN  <<Sign(x[1]) * r[1], q[1], q[2]>>

\* comparisons of a signed root with the integers 0 and 1
RootLt0(z) == ~IsNaN(z) /\ z[1] < 0
RootGe0(z) == ~IsNaN(z) /\ z[1] >= 0
RootLt1(z) == ~IsNaN(z) /\ (z[1] <= 0 \/ z[2] < z[3])
RootGe1(z) == ~IsNaN(z) /\ z[1] > 0 /\ z[2] >= z[3]
RootNe0(v) == IsNaN(v) \/ v[1] # 0

---------------------------------------------------------------------------
(* Series operations of pandas / numpy / talib                             *)

\* s[lo] + ... + s[hi] (exact, so the order of the additions does not show)
RECURSIVE SumRange(_, _, _)
SumRange(s, lo, hi) ==
    IF lo > hi THEN I(0)
    ELSE IF lo = hi THEN s[lo]
    ELSE LET mid == (lo + hi) \div 2
         IN  Add(SumRange(s, lo, mid), SumRange(s, mid + 1, hi))

\* (s[lo] - m)^2 + ... + (s[hi] - m)^2
RECURSIVE SumSqDev(_, _, _, _)
SumSqDev(s, m, lo, hi) ==
    IF lo > hi THEN I(0)
    ELSE IF lo = hi THEN Mul(Sub(s[lo], m), Sub(s[lo], m))
    ELSE LET mid == (lo + hi) \div 2
         IN  Add(SumSqDev(s, m, lo, mid), SumSqDev(s, m, mid + 1, hi))


\* talib.SMA(series, timeperiod): the first timeperiod - 1 outputs are NaN
SMA(s, period) ==
    [i \in 1..Len(s) |->
        IF i < period THEN NaN
        ELSE Div(SumRange(s, i - period + 1, i), I(period))]

\* Series.rolling(w).mean()
RollingMean(s, w) ==
    [i \in 1..Len(s) |->
        IF i < w THEN NaN
        ELSE Div(SumRange(s, i - w + 1, i), I(w))]

\* sample variance (ddof = 1) of s[lo..hi]
VarRange(s, lo, hi) ==
    LET n == hi - lo + 1
    IN  CHOOSE v \in {Div(SumSqDev(s, mean, lo, hi), I(n - 1)) :
                        mean \in {Div(SumRange(s, lo, hi), I(n))}} : TRUE

\* Series.rolling(w).std()
RollingStd(s, w) ==
    [i \in 1..Len(s) |->
        IF i < w THEN RootNaN
        ELSE Sqrt(VarRange(s, i - w + 1, i))]

\* Series.shift(1)
Shift1(s) == [i \in 1..Len(s) |-> IF i = 1 THEN NaN ELSE s[i - 1]]

\* Series.pct_change()
PctChange(s) ==
    [i \in 1..Len(s) |-> IF i = 1 THEN NaN ELSE Sub(Div(s[i], s[i - 1]), I(1))]

\* elementwise product of two Series
SeriesMul(a, b) == [i \in 1..Len(a) |-> Mul(a[i], b[i])]

\* (1 + s).cumprod()
RECURSIVE CumProdAt(_, _)
CumProdAt(s, i) == IF i = 0 THEN I(1) ELSE Mul(CumProdAt(s, i - 1), Add(I(1), s[i]))
CumProd(s) == [i \in 1..Len(s) |-> CumProdAt(s, i)]

\* Series.cummax()
RECURSIVE CumMaxAt(_, _)
CumMaxAt(s, i) ==
    IF i = 1 THEN s[1]
    ELSE LET m == CumMaxAt(s, i - 1) IN IF Gt(s[i], m) THEN s[i] ELSE m
CumMax(s) == [i \in 1..Len(s) |-> CumMaxAt(s, i)]

---------------------------------------------------------------------------
(* Data loading and merging (lines 15-22)                                  *)

\* left.merge(right, on="Date", how="inner"): for every left row in order,
\* one output row <<Date, Close_x, Close_y>> per right row of the same Date
\* (the rows for left[lo..hi], built by halves)
RECURSIVE MergeRange(_, _, _, _)
MergeRange(left, right, lo, hi) ==
    IF lo > hi THEN <<>>
    ELSE IF lo = hi
    THEN LET hits == SelectSeq(right, LAMBDA r : r[1] = left[lo][1])
         IN  [j \in 1..Len(hits) |-> <<left[lo][1], left[lo][2], hits[j][2]>>]
    ELSE LET mid == (lo + hi) \div 2
         IN  MergeRange(left, right, lo, mid) \o MergeRange(left, right, mid + 1, hi)

Merge(left, right) == MergeRange(left, right, 1, Len(left))

\* The positions of keys with a value in lo..hi, ascending by value and, for
\* equal values, in their order in keys (a stable sort, built by halves of the
\* value range).  Rows of equal Date are equal in every column in the inputs
\* drawn here, so the order sort_values leaves among them does not show.
RECURSIVE SortRange(_, _, _)
SortRange(keys, lo, hi) ==
    IF lo > hi THEN <<>>
    ELSE IF lo = hi
    THEN SelectSeq([i \in 1..Len(keys) |-> i], LAMBDA i : keys[i] = lo)
    ELSE LET mid == (lo + hi) \div 2
         IN  SortRange(keys, lo, mid) \o SortRange(keys, mid + 1, hi)

SeqMin(keys) == CHOOSE k \in {keys[i] : i \in 1..Len(keys)} : \A i \in 1..Len(keys) : k <= keys[i]
SeqMax(keys) == CHOOSE k \in {keys[i] : i \in 1..Len(keys)} : \A i \in 1..Len(keys) : k >= keys[i]

SortPerm(keys) ==
    IF Len(keys) = 0 THEN <<>> ELSE SortRange(keys, SeqMin(keys), SeqMax(keys))

\* the columns of a frame with its rows taken in the order perm
TakeRows(frame, perm) ==
    [c \in DOMAIN frame |-> [i \in 1..Len(perm) |-> frame[c][perm[i]]]]

\* range(n): the row labels reset_index(drop=True) gives
RangeIndex(n) == [i \in 1..n |-> i - 1]

NRows(frame) == Len(frame["Date"])

\* df.sort_values("Date")
SortValuesByDate(frame) == TakeRows(frame, SortPerm(frame["Date"]))

---------------------------------------------------------------------------
(* Signal, regime and return columns (lines 31-104)                        *)

\* talib.RSI(series, timeperiod): the first timeperiod outputs are NaN.  The
\* later outputs are the library's; the script is run on each series of the
\* family below (one level on every defined row).
RSILevels == {50, 70}
RSIOutput(n, level) == [i \in 1..n |-> IF i <= RSIPeriod THEN NaN ELSE I(level)]

\* SignalPrice with the RSI band closed at both ends (>= 30, <= 70)
SignalPriceClosedBand(ma10, ma30, rsi) ==
    IF Gt(ma10, ma30) /\ Ge(rsi, I(RSILow)) /\ Le(rsi, I(RSIHigh)) THEN I(1) ELSE I(0)

\* one element of Signal_Price: ((MA10 > MA30) & (RSI > 30) & (RSI < 70)).astype(int)
SignalPrice(ma10, ma30, rsi) ==
    IF Gt(ma10, ma30) /\ Gt(rsi, I(RSILow)) /\ Lt(rsi, I(RSIHigh)) THEN I(1) ELSE I(0)

\* one element of VIX_z: (Close_y - VIX_Mean) / VIX_Std
ZScore(v, mean, std) == DivByRoot(Sub(v, mean), std)

\* VolRegime with the upper boundary in the middle bin (z <= 1, z > 1)
VolRegimeUpperInclusive(z) ==
    IF RootLt0(z) THEN Rat(1, 1)
    ELSE IF RootGe0(z) /\ (RootLt1(z) \/ z[2] = z[3]) THEN Rat(1, 2)
    ELSE IF RootGe1(z) THEN Rat(0, 1)
    ELSE I(0)

\* one element of Vol_Regime: np.select takes the first condition that is
\* True and, when none is, its default 0
VolRegime(z) ==
    IF RootLt0(z) THEN Rat(1, 1)
    ELSE IF RootGe0(z) /\ RootLt1(z) THEN Rat(1, 2)
    ELSE IF RootGe1(z) THEN Rat(0, 1)
    ELSE I(0)

\* Final_Price_VIX: Signal_Price * Vol_Regime
FinalPriceVIX(signal, regime) == SeriesMul(signal, regime)

\* StrategyReturn without the lag: position * Market_Return
StrategyReturnSameDay(position, market) == SeriesMul(position, market)

\* a strategy return column: position.shift(1) * Market_Return
StrategyReturn(position, market) == SeriesMul(Shift1(position), market)

\* KeptRows dropping the leading rows only: everything from the first row
\* with no NaN on
KeptRowsFromFirstComplete(frame) ==
    SelectSeq([i \in 1..NRows(frame) |-> i],
              LAMBDA i : \E k \in 1..i :
                            \A c \in DOMAIN frame \ {"Date"} : ~IsNaN(frame[c][k]))

\* df.dropna(): the positions of the rows with no NaN in any column
KeptRows(frame) ==
    SelectSeq([i \in 1..NRows(frame) |-> i],
              LAMBDA i : \A c \in DOMAIN frame \ {"Date"} : ~IsNaN(frame[c][i]))

---------------------------------------------------------------------------
(* performance_metrics (lines 114-137)                                     *)

\* Series.std(): sample standard deviation, NaN for fewer than two values
SeriesStd(s) == Sqrt(VarRange(s, 1, Len(s)))

\* Series.min(): the least value that is not NaN, NaN when there is none
RECURSIVE MinSkipNaAt(_, _)
MinSkipNaAt(s, i) ==
    IF i = 0 THEN NaN
    ELSE LET m == MinSkipNaAt(s, i - 1)
         IN  IF IsNaN(s[i]) THEN m
             ELSE IF IsNaN(m) \/ Lt(s[i], m) THEN s[i] ELSE m
MinSkipNa(s) == MinSkipNaAt(s, Len(s))

\* base ** (periods / n) - 1, kept as <<base, exponent>>: NaN for a NaN base
\* and for a negative base under an exponent that is no whole number
PowMinus1(base, periods, n) ==
    LET e == Rat(periods, n)
    IN  IF ~IsNum(base) \/ (base[1] < 0 /\ e[2] # 1) THEN PowNaN
        ELSE <<base[1], base[2], e[1], e[2]>>

\* annualized_return / annualized_vol, kept as the pair; NaN when either is
SharpeNaN == <<PowNaN, RootNaN>>
Quotient(annret, annvol) ==
    IF annret = PowNaN \/ IsNaN(annvol) THEN SharpeNaN ELSE <<annret, annvol>>

\* SharpeRatio without the guard on a zero volatility
SharpeRatioUnguarded(annret, annvol) == Quotient(annret, annvol)

\* sharpe = annualized_return / annualized_vol if annualized_vol != 0 else np.nan
SharpeRatio(annret, annvol) ==
    IF RootNe0(annvol) THEN Quotient(annret, annvol) ELSE SharpeNaN

\* Drawdown against the first value instead of the running maximum
DrawdownFromStart(cumulative) ==
    [i \in 1..Len(cumulative) |-> Sub(Div(cumulative[i], cumulative[1]), I(1))]

\* drawdown = cumulative / cumulative.cummax() - 1
Drawdown(cumulative) ==
    LET peak == CumMax(cumulative)
    IN  [i \in 1..Len(cumulative) |-> Sub(Div(cumulative[i], peak[i]), I(1))]

AnnualizedVol(returns, periods) == RootTimesSqrt(SeriesStd(returns), I(periods))

\* cumulative.iloc[-1] raises IndexError on an empty Series
Raises(returns) == Len(returns) = 0

\* the tuple performance_metrics returns for a non-empty Series
PerformanceMetrics(returns, periods) ==
    LET cumulative == CumProd(returns)
        last == cumulative[Len(cumulative)]
        total_return == Sub(last, I(1))
        annualized_return == PowMinus1(last, periods, Len(returns))
        annualized_vol == AnnualizedVol(returns, periods)
        sharpe == SharpeRatio(annualized_return, annualized_vol)
        max_dd == MinSkipNa(Drawdown(cumulative))
    IN  <<total_return, annualized_return, sharpe, max_dd>>

\* round(x, digits) of a float, half to even
Round(x, digits) ==
    IF ~IsNum(x) THEN x
    ELSE LET scale == 10 ^ digits
             twice == 2 * x[1] * scale
             fl == twice \div (2 * x[2])
             rem == twice - fl * 2 * x[2]
             up == rem > x[2] \/ (rem = x[2] /\ fl % 2 = 1)
         IN  Rat(IF up THEN fl + 1 ELSE fl, scale)

\* DataFrame.round(4) on one row of the results table; the two entries kept
\* as a power and as a quotient of a power by a root stay as they are
RoundRow(m) == <<Round(m[1], RoundDigits), m[2], m[3], Round(m[4], RoundDigits)>>

---------------------------------------------------------------------------
(* The inputs the script is run on                                         *)

PriceVals == {2, 3}
VixVals == {2, 3}
Shapes == {"clean", "dupSp", "dupVix", "vixShort", "spReversed"}

\* Dates are 1..n.  The closes are level (the first VIX close lower than the
\* rest) except on the three dates around the end of the z-score's warm-up,
\* where each close is drawn freely.
FreeDates(n) == {d \in 1..n : d >= ZWindow - 1 /\ d <= ZWindow + 1}

\* the numbers of dates: none, too few for the warm-up, and enough
Lengths == {0} \cup ((ZWindow - 2)..MaxRows)

SpRows(n, free) == [d \in 1..n |-> <<d, I(IF d \in DOMAIN free THEN free[d] ELSE 2)>>]
VixRows(n, free) ==
    [d \in 1..n |-> <<d, I(IF d \in DOMAIN free THEN free[d] ELSE IF d = 1 THEN 1 ELSE 2)>>]

Reverse(s) == [i \in 1..Len(s) |-> s[Len(s) + 1 - i]]
WithLastTwice(s) == IF Len(s) = 0 THEN s ELSE Append(s, s[Len(s)])

\* sp.csv: clean, with its last date twice, or newest first
SpFile(shape, rows) ==
    IF shape = "dupSp" THEN WithLastTwice(rows)
    ELSE IF shape = "spReversed" THEN Reverse(rows)
    ELSE rows

\* vix.csv: clean, with its last date twice, or without the first date
VixFile(shape, rows) ==
    IF shape = "dupVix" THEN WithLastTwice(rows)
    ELSE IF shape = "vixShort" /\ Len(rows) > 0 THEN Tail(rows)
    ELSE rows

HasDuplicateDate(file) ==
    \E i, j \in 1..Len(file) : i # j /\ file[i][1] = file[j][1]

NoFrame == <<>>

---------------------------------------------------------------------------
(* The script, statement by statement                                      *)

Init ==
    /\ \E n \in Lengths, shape \in Shapes :
         \E pf \in [FreeDates(n) -> PriceVals], vf \in [FreeDates(n) -> VixVals] :
            /\ sp = SpFile(shape, SpRows(n, pf))
            /\ vix = VixFile(shape, VixRows(n, vf))
    /\ pc = "merge"
    /\ df = NoFrame
    /\ dfIndex = <<>>
    /\ metrics = <<>>
    /\ results = <<>>
    /\ printed = <<>>
    /\ saved = <<>>
    /\ exc = ""
    /\ call = <<>>
    /\ ret = <<>>

\* line 19: df = sp.merge(Close_y, on="Date", how="inner")
MergeStep ==
    /\ pc = "merge"
    /\ \E rows \in {Merge(sp, vix)} :
           /\ df' = ("Date" :> [i \in 1..Len(rows) |-> rows[i][1]])
                    @@ ("Close_x" :> [i \in 1..Len(rows) |-> rows[i][2]])
                    @@ ("Close_y" :> [i \in 1..Len(rows) |-> rows[i][3]])
           /\ dfIndex' = RangeIndex(Len(rows))
    /\ pc' = "sort"
    /\ UNCHANGED <<sp, vix, metrics, results, printed, saved, exc, call, ret>>

\* line 22: df = df.sort_values("Date").reset_index(drop=True)
SortStep ==
    /\ pc = "sort"
    /\ df' = SortValuesByDate(df)
    /\ dfIndex' = RangeIndex(NRows(df))
    /\ pc' = "indicators"
    /\ UNCHANGED <<sp, vix, metrics, results, printed, saved, exc, call, ret>>

\* lines 31-36: MA10, MA30, RSI
IndicatorStep ==
    /\ pc = "indicators"
    /\ \E level \in RSILevels :
          df' = ("MA10" :> SMA(df["Close_x"], MAShort))
                @@ ("MA30" :> SMA(df["Close_x"], MALong))
                @@ ("RSI" :> RSIOutput(NRows(df), level))
                @@ df
    /\ pc' = "signal"
    /\ UNCHANGED <<sp, vix, dfIndex, metrics, results, printed, saved, exc, call, ret>>

\* lines 46-50: Signal_Price
SignalStep ==
    /\ pc = "signal"
    /\ df' = ("Signal_Price" :>
                [i \in 1..NRows(df) |-> SignalPrice(df["MA10"][i], df["MA30"][i], df["RSI"][i])])
             @@ df
    /\ pc' = "zscore"
    /\ UNCHANGED <<sp, vix, dfIndex, metrics, results, printed, saved, exc, call, ret>>

\* lines 59-61: VIX_Mean, VIX_Std, VIX_z
ZScoreStep ==
    /\ pc = "zscore"
    /\ LET mean == RollingMean(df["Close_y"], ZWindow)
           std == RollingStd(df["Close_y"], ZWindow)
       IN  df' = ("VIX_Mean" :> mean)
                 @@ ("VIX_Std" :> std)
                 @@ ("VIX_z" :> [i \in 1..NRows(df) |-> ZScore(df["Close_y"][i], mean[i], std[i])])
                 @@ df
    /\ pc' = "regime"
    /\ UNCHANGED <<sp, vix, dfIndex, metrics, results, printed, saved, exc, call, ret>>

\* lines 72-79: Vol_Regime
RegimeStep ==
    /\ pc = "regime"
    /\ df' = ("Vol_Regime" :> [i \in 1..NRows(df) |-> VolRegime(df["VIX_z"][i])]) @@ df
    /\ pc' = "final"
    /\ UNCHANGED <<sp, vix, dfIndex, metrics, results, printed, saved, exc, call, ret>>

\* lines 87-90: Final_Price, Final_Price_VIX
FinalStep ==
    /\ pc = "final"
    /\ df' = ("Final_Price" :> df["Signal_Price"])
             @@ ("Final_Price_VIX" :> FinalPriceVIX(df["Signal_Price"], df["Vol_Regime"]))
             @@ df
    /\ pc' = "returns"
    /\ UNCHANGED <<sp, vix, dfIndex, metrics, results, printed, saved, exc, call, ret>>

\* lines 98-104: Market_Return, Ret_Price, Ret_Price_VIX
ReturnStep ==
    /\ pc = "returns"
    /\ LET market == PctChange(df["Close_x"])
       IN  df' = ("Market_Return" :> market)
                 @@ ("Ret_Price" :> StrategyReturn(df["Final_Price"], market))
                 @@ ("Ret_Price_VIX" :> StrategyReturn(df["Final_Price_VIX"], market))
                 @@ df
    /\ pc' = "dropna"
    /\ UNCHANGED <<sp, vix, dfIndex, metrics, results, printed, saved, exc, call, ret>>

\* line 107: df = df.dropna()
DropnaStep ==
    /\ pc = "dropna"
    /\ \E kept \in {KeptRows(df)} :
           /\ df' = TakeRows(df, kept)
           /\ dfIndex' = [i \in 1..Len(kept) |-> dfIndex[kept[i]]]
    /\ pc' = "evaluate"
    /\ UNCHANGED <<sp, vix, metrics, results, printed, saved, exc, call, ret>>

\* lines 145-147 on a frame with rows: the three performance_metrics calls
EvaluateStep ==
    /\ pc = "evaluate"
    /\ ~Raises(df["Ret_Price"])
    /\ metrics' = <<PerformanceMetrics(df["Ret_Price"], PeriodsPerYear),
                    PerformanceMetrics(df["Ret_Price_VIX"], PeriodsPerYear),
                    PerformanceMetrics(df["Market_Return"], PeriodsPerYear)>>
    /\ pc' = "results"
    /\ UNCHANGED <<sp, vix, df, dfIndex, results, printed, saved, exc, call, ret>>

\* EvaluateRaises with the empty series answered by a tuple of NaN
EvaluateEmptyAsNaN ==
    /\ pc = "evaluate"
    /\ Raises(df["Ret_Price"])
    /\ metrics' = <<<<NaN, PowNaN, SharpeNaN, NaN>>,
                    <<NaN, PowNaN, SharpeNaN, NaN>>,
                    <<NaN, PowNaN, SharpeNaN, NaN>>>>
    /\ pc' = "results"
    /\ UNCHANGED <<sp, vix, df, dfIndex, results, printed, saved, exc, call, ret>>

\* line 145 on a frame with no rows: the first call raises and the script ends
EvaluateRaises ==
    /\ pc = "evaluate"
    /\ Raises(df["Ret_Price"])
    /\ exc' = "IndexError"
    /\ pc' = "aborted"
    /\ UNCHANGED <<sp, vix, df, dfIndex, metrics, results, printed, saved, call, ret>>

\* lines 154-163: the results table, printed and written to the workbook
ResultsStep ==
    /\ pc = "results"
    /\ LET table == <<<<"Price Only", RoundRow(metrics[1])>>,
                      <<"Price + VIX", RoundRow(metrics[2])>>,
                      <<"Buy & Hold", RoundRow(metrics[3])>>>>
       IN  /\ results' = table
           /\ printed' = table
           /\ saved' = table
    /\ pc' = "plot"
    /\ UNCHANGED <<sp, vix, df, dfIndex, metrics, exc, call, ret>>

\* lines 170-181: the cumulative columns that are plotted
PlotStep ==
    /\ pc = "plot"
    /\ df' = ("Cum_Price" :> CumProd(df["Ret_Price"]))
             @@ ("Cum_Price_VIX" :> CumProd(df["Ret_Price_VIX"]))
             @@ ("Cum_BH" :> CumProd(df["Market_Return"]))
             @@ df
    /\ pc' = "done"
    /\ UNCHANGED <<sp, vix, dfIndex, metrics, results, printed, saved, exc, call, ret>>

Next ==
    \/ MergeStep
    \/ SortStep
    \/ IndicatorStep
    \/ SignalStep
    \/ ZScoreStep
    \/ RegimeStep
    \/ FinalStep
    \/ ReturnStep
    \/ DropnaStep
    \/ EvaluateStep
    \/ EvaluateRaises
    \/ ResultsStep
    \/ PlotStep

Spec == Init /\ [][Next]_vars

---------------------------------------------------------------------------
(* Direct calls of the three functions, on inputs drawn from bounded sets  *)

Idle ==
    /\ sp = <<>>
    /\ vix = <<>>
    /\ df = NoFrame
    /\ dfIndex = <<>>
    /\ metrics = <<>>
    /\ results = <<>>
    /\ printed = <<>>
    /\ saved = <<>>
    /\ exc = ""
    /\ ret = <<>>

MAInputs == {NaN, I(1), Rat(3, 2), I(2)}
RSIInputs == {NaN} \cup {I(v) : v \in {0, 29, 30, 31, 50, 69, 70, 71, 100}}

InitSignal ==
    /\ pc = "call"
    /\ \E ma10 \in MAInputs, ma30 \in MAInputs, rsi \in RSIInputs :
          call = <<"SignalPrice", <<ma10, ma30, rsi>>>>
    /\ Idle

\* one element of lines 46-50
CallSignalPrice ==
    /\ pc = "call"
    /\ call[1] = "SignalPrice"
    /\ ret' = SignalPrice(call[2][1], call[2][2], call[2][3])
    /\ pc' = "returned"
    /\ UNCHANGED <<sp, vix, df, dfIndex, metrics, results, printed, saved, exc, call>>

SpecSignal == InitSignal /\ [][CallSignalPrice]_vars

ZInputs ==
    {RootNaN, <<0, 0, 1>>} \cup {<<s, n, d>> : s \in {-1, 1}, n \in 1..ZMax, d \in 1..ZMax}

InitRegime ==
    /\ pc = "call"
    /\ \E z \in ZInputs : call = <<"VolRegime", z>>
    /\ Idle

\* one element of lines 72-79
CallVolRegime ==
    /\ pc = "call"
    /\ call[1] = "VolRegime"
    /\ ret' = VolRegime(call[2])
    /\ pc' = "returned"
    /\ UNCHANGED <<sp, vix, df, dfIndex, metrics, results, printed, saved, exc, call>>

SpecRegime == InitRegime /\ [][CallVolRegime]_vars

ReturnInputs == {Rat(-3, 2), I(-1), Rat(-1, 2), I(0), Rat(1, 2), I(1)}

InitMetrics ==
    /\ pc = "call"
    /\ \E k \in 0..MaxLen : \E returns \in [1..k -> ReturnInputs] :
          call = <<"performance_metrics", returns>>
    /\ Idle

\* performance_metrics(returns) on a Series with values
CallMetrics ==
    /\ pc = "call"
    /\ call[1] = "performance_metrics"
    /\ ~Raises(call[2])
    /\ ret' = PerformanceMetrics(call[2], PeriodsPerYear)
    /\ pc' = "returned"
    /\ UNCHANGED <<sp, vix, df, dfIndex, metrics, results, printed, saved, exc, call>>

\* performance_metrics(returns) on an empty Series
CallMetricsRaises ==
    /\ pc = "call"
    /\ call[1] = "performance_metrics"
    /\ Raises(call[2])
    /\ exc' = "IndexError"
    /\ pc' = "raised"
    /\ UNCHANGED <<sp, vix, df, dfIndex, metrics, results, printed, saved, call, ret>>

NextMetrics == CallMetrics \/ CallMetricsRaises

SpecMetrics == InitMetrics /\ [][NextMetrics]_vars

---------------------------------------------------------------------------
(* Properties                                                              *)

\* x < y for two floats that are numbers
Less(x, y) == x[1] * y[2] < y[1] * x[2]

\* a with its value at t replaced by v
Perturbed(a, t, v) == [a EXCEPT ![t] = v]

\* two columns agree everywhere but possibly at position u
AgreeExceptAt(a, b, u) ==
    /\ DOMAIN a = DOMAIN b
    /\ \A i \in DOMAIN b : i # u => a[i] = b[i]

\* the rows at which one value is replaced: the first two, and the rows from
\* the last warm-up row of the z-score on (where the inputs vary)
ReplacedRows(n) == {t \in 1..n : t <= 2 \/ t >= ZWindow - 2}

\* C1: no look-ahead.  For every row t >= 1 the return of each variant is the
\* position of row t - 1 times the market return of row t; and replacing
\* Signal[t] or Exposure[t] at one row t by any other value leaves every
\* return but the one of row t + 1 as it was (the return of row t in
\* particular).
C1_NoLookAhead ==
    pc = "dropna" =>
        LET n == NRows(df)
            sig == df["Signal_Price"]
            reg == df["Vol_Regime"]
            mr == df["Market_Return"]
        IN  /\ \A t \in 2..n :
                 /\ df["Ret_Price"][t] = Mul(df["Final_Price"][t - 1], mr[t])
                 /\ df["Ret_Price_VIX"][t] = Mul(df["Final_Price_VIX"][t - 1], mr[t])
            /\ \A t \in ReplacedRows(n) :
                 /\ \A s2 \in {Perturbed(sig, t, v) : v \in {I(0), I(1)} \ {sig[t]}} :
                       /\ AgreeExceptAt(StrategyReturn(s2, mr), df["Ret_Price"], t + 1)
                       /\ AgreeExceptAt(StrategyReturn(FinalPriceVIX(s2, reg), mr),
                                        df["Ret_Price_VIX"], t + 1)
                 /\ \A r2 \in {Perturbed(reg, t, e) : e \in {I(0), Rat(1, 2), I(1)} \ {reg[t]}} :
                       AgreeExceptAt(StrategyReturn(FinalPriceVIX(sig, r2), mr),
                                     df["Ret_Price_VIX"], t + 1)

\* C1 witness: a row whose own signal is 1 and whose return is 0 because the
\* signal of the row before was 0 while the market moved, and a row with a
\* volatility-filtered return that is not 0
C1_Witness ==
    /\ pc = "dropna"
    /\ \E t \in 2..NRows(df) :
          /\ df["Final_Price"][t - 1] = I(0)
          /\ df["Final_Price"][t] = I(1)
          /\ IsNum(df["Market_Return"][t]) /\ df["Market_Return"][t] # I(0)
          /\ df["Ret_Price"][t] = I(0)
    /\ \E t \in 2..NRows(df) :
          /\ df["Final_Price_VIX"][t - 1] = Rat(1, 2)
          /\ df["Final_Price_VIX"][t] # Rat(1, 2)
          /\ df["Ret_Price_VIX"][t] # I(0)
          /\ df["Ret_Price_VIX"][t] = Mul(Rat(1, 2), df["Market_Return"][t])

\* C2: where MA10, MA30 and RSI are all defined, the signal is 1 exactly when
\* MA10 > MA30 and 30 < RSI < 70, and 0 otherwise; the comparisons are strict,
\* so MA10 = MA30, RSI = 30 and RSI = 70 each give 0.
C2_SignalRule ==
    (pc = "returned" /\ call[1] = "SignalPrice") =>
        LET ma10 == call[2][1]
            ma30 == call[2][2]
            rsi == call[2][3]
        IN  (ma10 # NaN /\ ma30 # NaN /\ rsi # NaN) =>
                /\ ret \in {I(0), I(1)}
                /\ (ret = I(1)) <=> (Less(ma30, ma10) /\ Less(I(30), rsi) /\ Less(rsi, I(70)))
                /\ (ma10 = ma30 \/ rsi = I(30) \/ rsi = I(70)) => ret = I(0)

\* C2 witness: MA10 > MA30 with RSI exactly 70 gave 0
C2_Witness ==
    /\ pc = "returned"
    /\ call = <<"SignalPrice", <<I(2), Rat(3, 2), I(70)>>>>
    /\ ret = I(0)

\* C3: a defined z-score falls in exactly one of three bins: z < 0 gives
\* exposure 1.0, 0 <= z < 1 gives 0.5, z >= 1 gives 0.0 (so z = 0 gives 0.5
\* and z = 1 gives 0.0), and the exposure is always one of 0.0, 0.5, 1.0.
C3_ExposureBins ==
    (pc = "returned" /\ call[1] = "VolRegime" /\ call[2] # RootNaN) =>
        LET z == call[2]
            low == z[1] < 0
            middle == z[1] = 0 \/ (z[1] > 0 /\ z[2] < z[3])
            high == z[1] > 0 /\ z[2] >= z[3]
        IN  /\ ret \in {I(0), Rat(1, 2), I(1)}
            /\ (low /\ ~middle /\ ~high) \/ (~low /\ middle /\ ~high) \/ (~low /\ ~middle /\ high)
            /\ low => ret = I(1)
            /\ middle => ret = Rat(1, 2)
            /\ high => ret = I(0)

\* C3 witness: z = 1 exactly gave exposure 0.0
C3_Witness ==
    /\ pc = "returned"
    /\ call = <<"VolRegime", <<1, 1, 1>>>>
    /\ ret = I(0)

\* all values of a series are equal
IsConstant(r) == \A i, j \in 1..Len(r) : r[i] = r[j]

RunMax(c, t) == CHOOSE m \in {c[u] : u \in 1..t} : \A u \in 1..t : ~Less(m, c[u])
\* c[t] / max(c[1..t]) - 1
DrawdownAt(c, t) == Sub(Div(c[t], RunMax(c, t)), I(1))
NonDecreasing(c) == \A t \in 1..(Len(c) - 1) : ~Less(c[t + 1], c[t])

\* C5 as stated: on every non-empty series max_drawdown is the minimum over t
\* of cumulative[t] / max(cumulative[0..t]) - 1, a defined value that is never
\* positive, and 0 when the cumulative product never decreases.
C5_AsStated ==
    (pc = "returned" /\ call[1] = "performance_metrics") =>
        LET c == CumProd(call[2])
            dd == ret[4]
        IN  /\ IsNum(dd)
            /\ ~Less(I(0), dd)
            /\ \E t \in 1..Len(c) : dd = DrawdownAt(c, t)
            /\ \A t \in 1..Len(c) : IsNum(DrawdownAt(c, t)) /\ ~Less(DrawdownAt(c, t), dd)
            /\ NonDecreasing(c) => dd = I(0)

\* C5 amended: max_drawdown is the minimum of cumulative[t] / max(cumulative[0..t]) - 1
\* over the t at which that running maximum is not 0.  There is no such t
\* exactly when the first return is -1 (cumulative[0] = 0), and then
\* max_drawdown is NaN; otherwise it is a defined value that is never positive,
\* and 0 when the cumulative product never decreases.
C5_MaxDrawdown ==
    (pc = "returned" /\ call[1] = "performance_metrics") =>
        LET c == CumProd(call[2])
            dd == ret[4]
            T == {t \in 1..Len(c) : RunMax(c, t) # I(0)}
        IN  /\ (T = {}) <=> (call[2][1] = I(-1))
            /\ T = {} => dd = NaN
            /\ T # {} =>
                 /\ IsNum(dd)
                 /\ ~Less(I(0), dd)
                 /\ \E t \in T : dd = DrawdownAt(c, t)
                 /\ \A t \in T : ~Less(DrawdownAt(c, t), dd)
                 /\ NonDecreasing(c) => dd = I(0)

\* C5 witness: up 1/2, then down 1/2: the drawdown is -1/2
C5_Witness ==
    /\ pc = "returned"
    /\ call = <<"performance_metrics", <<Rat(1, 2), Rat(-1, 2)>>>>
    /\ ret[4] = Rat(-1, 2)

\* C6: a zero-length return series makes performance_metrics raise instead of
\* returning a tuple of NaN; so when trimming leaves no rows the script ends
\* with that exception: no metrics, no results table, nothing printed or
\* saved.  With rows left, no exception is raised.
C6_EmptySeriesRaises ==
    pc \in {"results", "plot", "done", "aborted"} =>
        IF NRows(df) = 0
        THEN /\ pc = "aborted"
             /\ exc = "IndexError"
             /\ metrics = <<>>
             /\ results = <<>>
             /\ printed = <<>>
             /\ saved = <<>>
        ELSE /\ pc # "aborted"
             /\ exc = ""
             /\ Len(metrics) = 3

\* C6 witness: sp.csv with sixty dates and vix.csv without the first of them;
\* the fifty-nine aligned rows all lie inside the warm-up of the z-score, so
\* trimming left no rows and the script ended with IndexError
C6_Witness ==
    /\ pc = "aborted"
    /\ exc = "IndexError"
    /\ Len(sp) = ZWindow
    /\ Len(vix) = ZWindow - 1
    /\ NRows(df) = 0
    /\ "Ret_Price" \in DOMAIN df

\* C7: when either source series holds a date twice, no derived column is
\* computed, no results table is printed or saved, and the duplicate does not
\* reach the merged frame.
C7_DuplicatesRejected ==
    (HasDuplicateDate(sp) \/ HasDuplicateDate(vix)) =>
        /\ pc \in {"merge", "aborted"}
        /\ DOMAIN df \subseteq {"Date", "Close_x", "Close_y"}
        /\ printed = <<>>
        /\ saved = <<>>

\* C8: wherever the rolling z-score is undefined (warm-up, or a rolling
\* standard deviation of 0) the exposure multiplier is undefined too.
C8_UndefinedExposure ==
    "Vol_Regime" \in DOMAIN df =>
        \A t \in 1..NRows(df) : IsNaN(df["VIX_z"][t]) => IsNaN(df["Vol_Regime"][t])

\* C9: every row kept by trimming has a row before it at which MA10, MA30, RSI
\* and the z-score were all defined: no evaluated return comes from a position
\* taken where an indicator or the z-score was undefined.
C9_KeptRowsRestOnDefinedPositions ==
    pc = "dropna" =>
        \A kept \in {KeptRows(df)} :
            \A k \in 1..Len(kept) :
                /\ kept[k] >= 2
                /\ ~IsNaN(df["MA10"][kept[k] - 1])
                /\ ~IsNaN(df["MA30"][kept[k] - 1])
                /\ ~IsNaN(df["RSI"][kept[k] - 1])
                /\ ~IsNaN(df["VIX_z"][kept[k] - 1])

\* the row holds a value in each derived column the evaluation needs
Complete(frame, i) ==
    \A c \in {"MA10", "MA30", "RSI", "VIX_z", "Market_Return", "Ret_Price", "Ret_Price_VIX"} :
        ~IsNaN(frame[c][i])

\* the step from frame/labels to frame2/labels2 keeps exactly the complete
\* rows, each unchanged, in their order
TrimmedTo(frame, labels, frame2, labels2) ==
    LET good == {i \in 1..NRows(frame) : Complete(frame, i)}
    IN  /\ DOMAIN frame2 = DOMAIN frame
        /\ Len(labels2) = Cardinality(good)
        /\ \A c \in DOMAIN frame : Len(frame2[c]) = Cardinality(good)
        /\ {labels2[k] : k \in 1..Len(labels2)} = {labels[i] : i \in good}
        /\ \A k \in 1..Len(labels2) :
              \A c \in DOMAIN frame : frame2[c][k] = frame[c][labels2[k] + 1]
        /\ \A k \in 1..(Len(labels2) - 1) :
              /\ labels2[k] < labels2[k + 1]
              /\ frame2["Date"][k] <= frame2["Date"][k + 1]
        /\ \A c \in {"Market_Return", "Ret_Price", "Ret_Price_VIX"} :
              \A k \in 1..Len(labels2) : IsNum(frame2[c][k])

\* C10: trimming keeps exactly the rows in which MA10, MA30, RSI, the z-score,
\* the market return and both strategy returns are defined, wherever the other
\* rows lie; the kept rows stay in ascending date order, and the three return
\* series handed on hold no undefined value and cover the same rows.
C10_Trimming == [][pc = "dropna" => TrimmedTo(df, dfIndex, df', dfIndex')]_vars

\* C10 witness: of sixty-one clean rows the sixtieth was kept and the
\* sixty-first, after it, was dropped (its VIX window is level)
C10_Witness ==
    /\ pc = "evaluate"
    /\ Len(sp) = ZWindow + 1
    /\ Len(vix) = ZWindow + 1
    /\ dfIndex = <<ZWindow - 1>>
    /\ IsNum(df["Ret_Price_VIX"][1])

====
